---- MODULE Spec2Model ----
(***************************************************************************)
(* Model of the animation timeline scheduler of src/src/animation.ts:      *)
(* AnimationClock, AnimationTimelineNodeImpl and AnimationTimelineImpl.    *)
(* Node objects live in an arena (the sequence `nodes`); the reference     *)
(* `undefined` is the index 0.                                             *)
(***************************************************************************)
EXTENDS Integers, Sequences, FiniteSets, TLC

\* ---------------------------------------------------------------- bounds
MaxChains == 3      \* chains enqueued in one behaviour
MaxLen == 3         \* segments of one animate() call
MaxNodes == 3       \* nodes created in one behaviour
MaxDur == 1         \* largest segment duration
MaxWall == 2        \* largest value of performance.now()
MaxPauses == 1      \* effective pause() calls in one behaviour
MaxClockPauses == 4 \* effective clock.pause() calls in one behaviour of the clock alone
MaxTimingWall == 4   \* largest value of performance.now() for undisturbed chains
MaxTimingDur == 2    \* largest segment duration of an undisturbed chain
MaxTimingLen == 2    \* segments of one animate() call for an undisturbed chain
MaxTimingPauses == 2 \* effective pause() calls while undisturbed chains run
MaxRepeat == 3       \* largest count of a repeat() call
MaxLiveWall == 4      \* largest value of performance.now() under fair frame pulses

ErrVals == {"E1", "E2"}                 \* values a callback may throw
Segment == [duration : 1..MaxDur, animator : BOOLEAN]

RECURSIVE SeqsUpTo(_, _)
SeqsUpTo(S, n) ==
    IF n = 0 THEN {<<>>}
    ELSE LET shorter == SeqsUpTo(S, n - 1)
         IN  shorter \cup {Append(s, x) : s \in {t \in shorter : Len(t) = n - 1}, x \in S}

Inits == SeqsUpTo(Segment, MaxLen) \ {<<>>}

\* ----------------------------------------------------------------- state
VARIABLES
    wall,       \* performance.now()
    clock,      \* AnimationClock: _pausedTime, _isPaused, _offset
    nodes,      \* arena of AnimationTimelineNodeImpl objects
    head,       \* AnimationTimelineImpl._nextNode
    tail,       \* AnimationTimelineImpl._tailNode
    timer,      \* AnimationTimelineImpl._timer is set
    isPolling,  \* AnimationTimelineImpl._isPolling
    promise,    \* one deferred per chain
    pauses,     \* pauses taken so far
    loop        \* the one loop() call: its position, isActive and the round awaited

vars == <<wall, clock, nodes, head, tail, timer, isPolling, promise, pauses, loop>>

NodeIds == 1..Len(nodes)
ChainIds == 1..Len(promise)

\* ----------------------------------------------------------------- clock
ClockNow(c, w) == IF c.isPaused THEN c.pausedTime ELSE w - c.offset

ClockPause(c, w) ==
    IF ~c.isPaused
    THEN [c EXCEPT !.pausedTime = ClockNow(c, w), !.isPaused = TRUE]
    ELSE c

ClockResume(c, w) ==
    IF c.isPaused
    THEN [c EXCEPT !.offset = c.offset + (w - c.pausedTime), !.isPaused = FALSE]
    ELSE c

\* the paused flag is set where it should be cleared
ClockReset_StaysPaused == [pausedTime |-> 0, isPaused |-> TRUE, offset |-> 0]

ClockReset == [pausedTime |-> 0, isPaused |-> FALSE, offset |-> 0]

Now == ClockNow(clock, wall)

\* -------------------------------------------------------------- deferred
Deferred == [state |-> "pending", value |-> "none", resolveCalls |-> 0]

Resolve(p, c) ==
    [p EXCEPT ![c] = [state |-> IF @.state = "pending" THEN "resolved" ELSE @.state,
                      value |-> @.value,
                      resolveCalls |-> @.resolveCalls + 1]]

Reject(p, c, e) ==
    [p EXCEPT ![c] = IF @.state = "pending"
                     THEN [@ EXCEPT !.state = "rejected", !.value = e]
                     ELSE @]

\* ------------------------------------------------------ active-slot list
\* The nodes visited by `while (currentNode) ... currentNode = currentNode._nextNode`
RECURSIVE Walk(_, _, _)
Walk(nd, n, seen) ==
    IF n = 0 \/ n \in seen THEN <<>>
    ELSE <<n>> \o Walk(nd, nd[n].nextNode, seen \cup {n})

RECURSIVE Cyclic(_, _, _)
Cyclic(nd, n, seen) ==
    IF n = 0 THEN FALSE
    ELSE IF n \in seen THEN TRUE
    ELSE Cyclic(nd, nd[n].nextNode, seen \cup {n})

Range(s) == {s[i] : i \in 1..Len(s)}
ActiveList == Walk(nodes, head, {})
Active == Range(ActiveList)

\* The state a node method works on: the arena, the timeline's two list
\* pointers and the deferreds.
Ctx == [nodes |-> nodes, head |-> head, tail |-> tail, promise |-> promise]

\* ------------------------------------------------------------ node: tick
Min(a, b) == IF a <= b THEN a ELSE b
Max(a, b) == IF a >= b THEN a ELSE b

\* elapsed / duration without the clamp
CalculateProgress_Unclamped(n, now) ==
    [num |-> now - n.startTime[1], den |-> n.duration]

\* _calculateProgress(now): elapsed / duration clamped to [0, 1], kept as the
\* fraction num / den (the duration is positive)
CalculateProgress(n, now) ==
    [num |-> Min(Max(now - n.startTime[1], 0), n.duration), den |-> n.duration]

\* progress >= 1
ProgressDone(n, ts) == CalculateProgress(n, ts).num >= CalculateProgress(n, ts).den

\* the start time is taken from the clock's origin, not from the first tick
InitializeAnimation_LatchesZero(n, now) == [n EXCEPT !.started = TRUE, !.startTime = <<0>>]

InitializeAnimation(n, now) == [n EXCEPT !.started = TRUE, !.startTime = <<now>>]

\* the start time is latched again at every tick
Tick_RelatchesStart(cx, i, ts, now, thr) ==
    LET n == cx.nodes[i] IN
    IF n.completed \/ n.error
    THEN [cx |-> cx, ret |-> TRUE, called |-> FALSE, progress |-> <<>>]
    ELSE LET n1 == InitializeAnimation(n, now) IN
         IF n1.animator /\ thr # "none"
         THEN [cx |-> [cx EXCEPT !.nodes[i] = [n1 EXCEPT !.error = TRUE],
                                 !.promise = Reject(cx.promise, n1.chain, thr)],
               ret |-> TRUE, called |-> TRUE,
               progress |-> <<CalculateProgress(n1, ts)>>]
         ELSE [cx |-> [cx EXCEPT !.nodes[i] = n1],
               ret |-> ProgressDone(n1, ts), called |-> n1.animator,
               progress |-> IF n1.animator THEN <<CalculateProgress(n1, ts)>> ELSE <<>>]

\* _tick(ts) of node i; thr is "none" or the value its callback throws.
\* Yields the context after the tick, the returned flag, whether the
\* animator was called, and the raw progress it was called with (<<>> if none).
Tick(cx, i, ts, now, thr) ==
    LET n == cx.nodes[i] IN
    IF n.completed \/ n.error
    THEN [cx |-> cx, ret |-> TRUE, called |-> FALSE, progress |-> <<>>]
    ELSE LET n1 == IF ~n.started THEN InitializeAnimation(n, now) ELSE n IN
         IF n1.animator /\ thr # "none"
         THEN [cx |-> [cx EXCEPT !.nodes[i] = [n1 EXCEPT !.error = TRUE],
                                 !.promise = Reject(cx.promise, n1.chain, thr)],
               ret |-> TRUE, called |-> TRUE,
               progress |-> <<CalculateProgress(n1, ts)>>]
         ELSE [cx |-> [cx EXCEPT !.nodes[i] = n1],
               ret |-> ProgressDone(n1, ts), called |-> n1.animator,
               progress |-> IF n1.animator THEN <<CalculateProgress(n1, ts)>> ELSE <<>>]

\* -------------------------------------------------- node: complete/revoke
OnCompleted(cx, i) ==
    IF cx.nodes[i].onCompleted
    THEN [cx EXCEPT !.promise = Resolve(cx.promise, cx.nodes[i].chain)]
    ELSE cx

UpdateTimelineReferences(cx, i, s) ==
    LET c1 == IF cx.tail = i THEN [cx EXCEPT !.tail = s] ELSE cx
    IN  IF c1.head = i THEN [c1 EXCEPT !.head = s] ELSE c1

UpdateNodeLinks(cx, i, s) ==
    LET c1 == IF cx.nodes[i].prevNode # 0
              THEN [cx EXCEPT !.nodes[cx.nodes[i].prevNode].nextNode = s] ELSE cx
    IN  IF c1.nodes[i].nextNode # 0
        THEN [c1 EXCEPT !.nodes[c1.nodes[i].nextNode].prevNode = s] ELSE c1

\* the successor is linked in behind the completed node, which stays linked
Replace_InsertsAfter(cx, i, s) ==
    LET c1 == [cx EXCEPT !.nodes[s].prevNode = i,
                         !.nodes[s].nextNode = cx.nodes[i].nextNode,
                         !.nodes[i].nextNode = s]
        c2 == IF cx.nodes[i].nextNode # 0
              THEN [c1 EXCEPT !.nodes[cx.nodes[i].nextNode].prevNode = s] ELSE c1
        c3 == IF c2.tail = i THEN [c2 EXCEPT !.tail = s] ELSE c2
    IN  OnCompleted(c3, i)

\* the successor is re-armed when it is promoted
Replace_RearmsSuccessor(cx, i, s) ==
    LET c1 == [cx EXCEPT !.nodes[s].prevNode = cx.nodes[i].prevNode,
                         !.nodes[s].completed = FALSE]
        c2 == [c1 EXCEPT !.nodes[s].nextNode = c1.nodes[i].nextNode]
    IN  OnCompleted(UpdateNodeLinks(UpdateTimelineReferences(c2, i, s), i, s), i)

Replace(cx, i, s) ==
    LET c1 == [cx EXCEPT !.nodes[s].prevNode = cx.nodes[i].prevNode]
        c2 == [c1 EXCEPT !.nodes[s].nextNode = c1.nodes[i].nextNode]
    IN  OnCompleted(UpdateNodeLinks(UpdateTimelineReferences(c2, i, s), i, s), i)

Remove(cx, i) ==
    LET c1 == IF cx.nodes[i].prevNode # 0
              THEN [cx EXCEPT !.nodes[cx.nodes[i].prevNode].nextNode = cx.nodes[i].nextNode]
              ELSE [cx EXCEPT !.head = cx.nodes[i].nextNode]
        c2 == IF c1.nodes[i].nextNode # 0
              THEN [c1 EXCEPT !.nodes[c1.nodes[i].nextNode].prevNode = c1.nodes[i].prevNode]
              ELSE c1
        c3 == IF c2.tail = i THEN [c2 EXCEPT !.tail = c2.nodes[i].prevNode] ELSE c2
        c4 == IF c3.head = i THEN [c3 EXCEPT !.head = c3.nodes[i].nextNode] ELSE c3
    IN  OnCompleted(c4, i)

\* promotes the successor of a node that errored
Complete_PromotesErrored(cx, i) ==
    IF cx.nodes[i].completed THEN cx
    ELSE LET c1 == [cx EXCEPT !.nodes[i].completed = TRUE] IN
         IF c1.nodes[i].subNode # 0
         THEN Replace(c1, i, c1.nodes[i].subNode)
         ELSE Remove(c1, i)

Complete(cx, i) ==
    IF cx.nodes[i].completed THEN cx
    ELSE LET c1 == [cx EXCEPT !.nodes[i].completed = TRUE] IN
         IF c1.nodes[i].subNode # 0 /\ ~c1.nodes[i].error
         THEN Replace(c1, i, c1.nodes[i].subNode)
         ELSE Remove(c1, i)

\* the walk down the static chain is left out
RevokeSubNodes_NoWalk(cx, cur) == cx

RECURSIVE RevokeSubNodes(_, _)
RevokeSubNodes(cx, cur) ==
    IF cur = 0 THEN cx
    ELSE LET c1 == IF ~cx.nodes[cur].completed
                   THEN Remove([cx EXCEPT !.nodes[cur].completed = TRUE], cur)
                   ELSE cx
         IN  RevokeSubNodes(c1, c1.nodes[cur].subNode)

\* revoke() does not look at the completed flag
NodeRevoke_Unguarded(cx, i) ==
    LET c1 == Remove([cx EXCEPT !.nodes[i].completed = TRUE], i)
    IN  RevokeSubNodes(c1, c1.nodes[i].subNode)

NodeRevoke(cx, i) ==
    LET c1 == IF ~cx.nodes[i].completed
              THEN Remove([cx EXCEPT !.nodes[i].completed = TRUE], i)
              ELSE cx
    IN  RevokeSubNodes(c1, c1.nodes[i].subNode)

\* the walk steps over completed nodes without counting them
RECURSIVE Sub_SkipsCompleted(_, _, _)
Sub_SkipsCompleted(nd, i, index) ==
    IF i = 0 THEN 0
    ELSE IF nd[i].completed THEN Sub_SkipsCompleted(nd, nd[i].subNode, index)
    ELSE IF index = 0 THEN i
    ELSE Sub_SkipsCompleted(nd, nd[i].subNode, index - 1)

\* node.sub(index): the walk ends at `index` steps or where the chain ends
RECURSIVE Sub(_, _, _)
Sub(nd, i, index) ==
    IF i = 0 \/ index = 0 THEN i ELSE Sub(nd, nd[i].subNode, index - 1)

\* ------------------------------------------------------------- timeline
NewNode(c, seg, sub, prev, isLast) ==
    [chain |-> c, duration |-> seg.duration, animator |-> seg.animator,
     started |-> FALSE, startTime |-> <<>>, completed |-> FALSE, error |-> FALSE,
     subNode |-> sub, prevNode |-> prev, nextNode |-> 0, onCompleted |-> isLast]

\* every node of the chain is given the completion callback
ChainNodes_CallbackOnEvery(c, inits, root, tl) ==
    [k \in 1..Len(inits) |->
        NewNode(c, inits[k],
                IF k < Len(inits) THEN root + k ELSE 0,
                IF k = 1 THEN tl ELSE 0,
                TRUE)]

\* _createRootNode followed by _createAndLinkChildNodes: the objects created
\* for one animate() call, the first at arena index `root`
ChainNodes(c, inits, root, tl) ==
    [k \in 1..Len(inits) |->
        NewNode(c, inits[k],
                IF k < Len(inits) THEN root + k ELSE 0,
                IF k = 1 THEN tl ELSE 0,
                k = Len(inits))]

LinkRootNode(cx, root) ==
    LET c1 == IF cx.head = 0 THEN [cx EXCEPT !.head = root] ELSE cx
        c2 == IF c1.tail # 0 THEN [c1 EXCEPT !.nodes[c1.tail].nextNode = root] ELSE c1
    IN  [c2 EXCEPT !.tail = root]

\* The scheduling part of the timeline: clock, timer and polling flag
Sched == [clock |-> clock, timer |-> timer, isPolling |-> isPolling]

Launch(s) == IF s.timer THEN s ELSE [s EXCEPT !.isPolling = TRUE, !.timer = TRUE]

\* start() does not look at the paused flag
StartT_IgnoresPaused(s) ==
    IF ~s.timer
    THEN Launch([s EXCEPT !.clock = ClockReset])
    ELSE s

StartT(s) ==
    IF ~s.timer /\ ~s.clock.isPaused
    THEN Launch([s EXCEPT !.clock = ClockReset])
    ELSE s

PauseT(s, w) ==
    IF ~s.clock.isPaused /\ s.timer
    THEN [s EXCEPT !.clock = ClockPause(s.clock, w), !.timer = FALSE]
    ELSE s

ResumeT(s, w) ==
    IF s.clock.isPaused
    THEN Launch([s EXCEPT !.clock = ClockResume(s.clock, w)])
    ELSE s

\* a throw ends the sweep: the nodes behind the throwing one are not ticked
RECURSIVE ProcessNodes_StopsAtThrow(_, _, _, _, _)
ProcessNodes_StopsAtThrow(cx, list, ts, now, thr) ==
    IF list = <<>> THEN [cx |-> cx, done |-> <<>>, called |-> {}, passed |-> {}]
    ELSE LET t == Tick(cx, Head(list), ts, now, thr[Head(list)])
             r == IF t.cx.nodes[Head(list)].error /\ ~cx.nodes[Head(list)].error
                  THEN [cx |-> t.cx, done |-> <<>>, called |-> {}, passed |-> {}]
                  ELSE ProcessNodes_StopsAtThrow(t.cx, Tail(list), ts, now, thr)
         IN  [cx |-> r.cx,
              done |-> IF t.ret THEN <<Head(list)>> \o r.done ELSE r.done,
              called |-> IF t.called THEN {Head(list)} \cup r.called ELSE r.called,
              passed |-> IF t.progress # <<>>
                         THEN {<<Head(list), t.progress[1]>>} \cup r.passed
                         ELSE r.passed]

\* _processNodes: tick the nodes of `list` in order
RECURSIVE ProcessNodes(_, _, _, _, _)
ProcessNodes(cx, list, ts, now, thr) ==
    IF list = <<>> THEN [cx |-> cx, done |-> <<>>, called |-> {}, passed |-> {}]
    ELSE LET t == Tick(cx, Head(list), ts, now, thr[Head(list)])
             r == ProcessNodes(t.cx, Tail(list), ts, now, thr)
         IN  [cx |-> r.cx,
              done |-> IF t.ret THEN <<Head(list)>> \o r.done ELSE r.done,
              called |-> IF t.called THEN {Head(list)} \cup r.called ELSE r.called,
              passed |-> IF t.progress # <<>>
                         THEN {<<Head(list), t.progress[1]>>} \cup r.passed
                         ELSE r.passed]

\* _completeNodes: nodes.forEach(node => node._complete())
RECURSIVE CompleteNodes(_, _)
CompleteNodes(cx, done) ==
    IF done = <<>> THEN cx ELSE CompleteNodes(Complete(cx, Head(done)), Tail(done))

\* currentNode.nextNode in _findAndRevokeNode: the node class has no such
\* property (its link is _nextNode), so the read yields undefined
NextNodeProperty(nd, i) == 0

RECURSIVE SearchInSubNodes(_, _, _)
SearchInSubNodes(cx, sub, target) ==
    IF sub = 0 THEN [cx |-> cx, ret |-> FALSE]
    ELSE IF sub = target THEN [cx |-> NodeRevoke(cx, sub), ret |-> TRUE]
    ELSE SearchInSubNodes(cx, cx.nodes[sub].subNode, target)

\* the sub-chains are searched whether or not `deep` is set
RECURSIVE FindAndRevokeNode_AlwaysDeep(_, _, _, _)
FindAndRevokeNode_AlwaysDeep(cx, cur, target, deep) ==
    IF cur = 0 THEN [cx |-> cx, ret |-> FALSE]
    ELSE IF cur = target THEN [cx |-> NodeRevoke(cx, cur), ret |-> TRUE]
    ELSE LET f == SearchInSubNodes(cx, cx.nodes[cur].subNode, target)
         IN  IF f.ret THEN f
             ELSE FindAndRevokeNode_AlwaysDeep(cx, NextNodeProperty(cx.nodes, cur), target, deep)

RECURSIVE FindAndRevokeNode(_, _, _, _)
FindAndRevokeNode(cx, cur, target, deep) ==
    IF cur = 0 THEN [cx |-> cx, ret |-> FALSE]
    ELSE IF cur = target THEN [cx |-> NodeRevoke(cx, cur), ret |-> TRUE]
    ELSE LET f == IF deep THEN SearchInSubNodes(cx, cx.nodes[cur].subNode, target)
                  ELSE [cx |-> cx, ret |-> FALSE]
         IN  IF f.ret THEN f
             ELSE FindAndRevokeNode(cx, NextNodeProperty(cx.nodes, cur), target, deep)

\* every list of segments passes the check
ValidateAnimationInitials_Accepts(inits) == TRUE

\* _validateAnimationInitials: FALSE when it throws
ValidateAnimationInitials(inits) == Len(inits) >= 1

\* enqueue(...inits) on the context cx and the scheduling part sch: the two
\* after the call, and whether the call threw
EnqueueOp(cx, sch, inits) ==
    IF ~ValidateAnimationInitials(inits)
    THEN [cx |-> cx, sched |-> sch, threw |-> TRUE]
    ELSE LET c == Len(cx.promise) + 1
             root == Len(cx.nodes) + 1
             c1 == [cx EXCEPT !.nodes = cx.nodes \o ChainNodes(c, inits, root, cx.tail),
                              !.promise = Append(cx.promise, Deferred)]
         IN  [cx |-> LinkRootNode(c1, root),
              sched |-> IF ~sch.isPolling THEN StartT(sch) ELSE sch,
              threw |-> FALSE]

\* every segment is repeated `count` times in place: s1 s1 .. s2 s2 ..
RECURSIVE CreateRepeatedInits_EachInPlace(_, _)
CreateRepeatedInits_EachInPlace(count, inits) ==
    IF inits = <<>> THEN <<>>
    ELSE [k \in 1..count |-> Head(inits)] \o CreateRepeatedInits_EachInPlace(count, Tail(inits))

\* _createRepeatedInits: Array.from({ length: count }, () => inits).flat()
RECURSIVE CreateRepeatedInits(_, _)
CreateRepeatedInits(count, inits) ==
    IF count <= 0 THEN <<>> ELSE inits \o CreateRepeatedInits(count - 1, inits)

\* repeat(count, ...inits)
RepeatOp(cx, sch, count, inits) ==
    IF ~ValidateAnimationInitials(inits)
    THEN [cx |-> cx, sched |-> sch, threw |-> TRUE]
    ELSE EnqueueOp(cx, sch, CreateRepeatedInits(count, inits))

\* a node object created by another AnimationTimelineImpl
ForeignNode == -1

\* timeline.revoke(node, deep): the ownership test, then the search
TimelineRevokeOp(cx, target, deep) ==
    IF target = ForeignNode THEN [cx |-> cx, ret |-> FALSE]
    ELSE FindAndRevokeNode(cx, cx.head, target, deep)

\* ----------------------------------------------------------------- loop
\* loop(fn) has not been called
LoopIdle == [pc |-> "none", isActive |-> FALSE, rounds |-> 0, awaiting |-> {}]

\* fn(this) for a caller's fn that enqueues the chains of `batch` on this
\* timeline, in order, and returns their promises
RECURSIVE EnqueueAll(_, _, _)
EnqueueAll(cx, sch, batch) ==
    IF batch = <<>> THEN [cx |-> cx, sched |-> sch]
    ELSE LET r == EnqueueOp(cx, sch, Head(batch))
         IN  EnqueueAll(r.cx, r.sched, Tail(batch))

RECURSIVE SegmentsOf(_)
SegmentsOf(batch) == IF batch = <<>> THEN 0 ELSE Len(Head(batch)) + SegmentsOf(Tail(batch))

\* what a caller's fn may enqueue in one round: one chain or two
LoopBatches == {<<a>> : a \in Inits} \cup {<<a, b>> : a, b \in Inits}

\* the round is over as soon as one of its promises is settled
PromiseAll_FirstSettled(pr, awaiting) ==
    IF \E c \in awaiting : pr[c].state = "rejected" THEN "rejected"
    ELSE IF \E c \in awaiting : pr[c].state = "resolved" THEN "resolved"
    ELSE "pending"

\* Promise.all over the promises of one round
PromiseAll(pr, awaiting) ==
    IF \E c \in awaiting : pr[c].state = "rejected" THEN "rejected"
    ELSE IF \A c \in awaiting : pr[c].state = "resolved" THEN "resolved"
    ELSE "pending"

\* ---------------------------------------------------------------- actions
SetCtx(cx) ==
    /\ nodes' = cx.nodes
    /\ head' = cx.head
    /\ tail' = cx.tail
    /\ promise' = cx.promise

SetSched(s) ==
    /\ clock' = s.clock
    /\ timer' = s.timer
    /\ isPolling' = s.isPolling

Init ==
    /\ wall = 0
    /\ clock = ClockReset
    /\ nodes = <<>>
    /\ head = 0
    /\ tail = 0
    /\ timer = FALSE
    /\ isPolling = FALSE
    /\ promise = <<>>
    /\ pauses = 0
    /\ loop = LoopIdle

\* wall time passes, up to `max`
AdvanceTo(max) ==
    /\ wall < max
    /\ wall' = wall + 1
    /\ UNCHANGED <<clock, nodes, head, tail, timer, isPolling, promise, pauses, loop>>

Advance == AdvanceTo(MaxWall)

\* timeline.animate(...inits); an empty list makes the call throw
Enqueue(inits) ==
    /\ Len(promise) < MaxChains
    /\ Len(nodes) + Len(inits) <= MaxNodes
    /\ LET r == EnqueueOp(Ctx, Sched, inits)
       IN  SetCtx(r.cx) /\ SetSched(r.sched)
    /\ UNCHANGED <<wall, pauses, loop>>

\* timeline.repeat(count, ...inits)
Repeat(count, inits) ==
    /\ Len(promise) < MaxChains
    /\ Len(nodes) + count * Len(inits) <= MaxNodes
    /\ LET r == RepeatOp(Ctx, Sched, count, inits)
       IN  SetCtx(r.cx) /\ SetSched(r.sched)
    /\ UNCHANGED <<wall, pauses, loop>>

\* the nodes promoted by the completions are ticked in the same sweep
Poll_TicksPromoted(cx, ck, w, thr) ==
    IF ck.isPaused \/ cx.head = 0
    THEN [cx |-> cx, ret |-> FALSE, ticked |-> <<>>, called |-> {}, passed |-> {}]
    ELSE LET now == ClockNow(ck, w)
             list == Walk(cx.nodes, cx.head, {})
             p == ProcessNodes(cx, list, now, ClockNow(ck, w), thr)
             c1 == CompleteNodes(p.cx, p.done)
             more == SelectSeq(Walk(c1.nodes, c1.head, {}),
                               LAMBDA i : i \notin Range(list))
             p2 == ProcessNodes(c1, more, now, now, [i \in Range(more) |-> "none"])
         IN  [cx |-> p2.cx, ret |-> c1.head # 0, ticked |-> list \o more,
              called |-> p.called \cup p2.called, passed |-> p.passed \cup p2.passed]

\* _poll(): the context after the sweep, the returned flag, the nodes ticked,
\* the nodes whose animator was called and the raw progress each was passed
Poll(cx, ck, w, thr) ==
    IF ck.isPaused \/ cx.head = 0
    THEN [cx |-> cx, ret |-> FALSE, ticked |-> <<>>, called |-> {}, passed |-> {}]
    ELSE LET now == ClockNow(ck, w)
             list == Walk(cx.nodes, cx.head, {})
             p == ProcessNodes(cx, list, now, ClockNow(ck, w), thr)
             c1 == CompleteNodes(p.cx, p.done)
         IN  [cx |-> c1, ret |-> c1.head # 0, ticked |-> list, called |-> p.called,
              passed |-> p.passed]

\* the clock and the polling flag are left as they are
Cleanup_OnlyStopsTimer(cx) ==
    /\ SetCtx([cx EXCEPT !.head = 0, !.tail = 0])
    /\ SetSched([Sched EXCEPT !.timer = FALSE])

\* _cleanup(): the timer is dropped, then reset()
Cleanup(cx) ==
    /\ SetCtx([cx EXCEPT !.head = 0, !.tail = 0])
    /\ SetSched([clock |-> ClockReset, timer |-> FALSE, isPolling |-> FALSE])

\* the frame callback `loop` of _launch: _poll(), then re-subscribe or _cleanup().
\* On a cyclic list _processNodes never returns, so no frame completes.
FrameAt(w, thr) ==
    /\ timer
    /\ ~Cyclic(nodes, head, {})
    /\ LET p == Poll(Ctx, clock, w, thr)
       IN  IF p.ret
           THEN /\ SetCtx(p.cx)
                /\ SetSched([Sched EXCEPT !.timer = TRUE])
           ELSE Cleanup(p.cx)
    /\ UNCHANGED <<pauses, loop>>

Frame(thr) ==
    /\ FrameAt(wall, thr)
    /\ UNCHANGED wall

\* the values the callbacks of the active nodes throw in one sweep
Throws ==
    {thr \in [Active -> {"none"} \cup ErrVals] :
        \A i \in Active : thr[i] # "none" =>
            nodes[i].animator /\ ~nodes[i].completed /\ ~nodes[i].error}

\* timeline.pause(), while fewer than `max` pauses have been taken
PauseUpTo(max) ==
    /\ pauses < max
    /\ SetSched(PauseT(Sched, wall))
    /\ pauses' = IF ~clock.isPaused /\ timer THEN pauses + 1 ELSE pauses
    /\ UNCHANGED <<wall, nodes, head, tail, promise, loop>>

Pause == PauseUpTo(MaxPauses)

Resume ==
    /\ SetSched(ResumeT(Sched, wall))
    /\ UNCHANGED <<wall, nodes, head, tail, promise, pauses, loop>>

Start ==
    /\ SetSched(StartT(Sched))
    /\ UNCHANGED <<wall, nodes, head, tail, promise, pauses, loop>>

\* timeline.reset(): _stopAnimation(), _resetState()
Reset ==
    /\ Cleanup(Ctx)
    /\ UNCHANGED <<wall, pauses, loop>>

\* node.revoke(), for the chain handle or any sub(i)
Revoke(i) ==
    /\ SetCtx(NodeRevoke(Ctx, i))
    /\ UNCHANGED <<wall, clock, timer, isPolling, pauses, loop>>

\* timeline.revoke(node, deep)
TimelineRevoke(i, deep) ==
    /\ SetCtx(TimelineRevokeOp(Ctx, i, deep).cx)
    /\ UNCHANGED <<wall, clock, timer, isPolling, pauses, loop>>

\* one pass of the body of `while (isActive)`: fn(this), then the await
RunRound(batch) ==
    /\ Len(promise) + Len(batch) <= MaxChains
    /\ Len(nodes) + SegmentsOf(batch) <= MaxNodes
    /\ LET r == EnqueueAll(Ctx, Sched, batch)
       IN  SetCtx(r.cx) /\ SetSched(r.sched)
    /\ loop' = [pc |-> "awaiting", isActive |-> TRUE, rounds |-> loop.rounds + 1,
                awaiting |-> (Len(promise) + 1)..(Len(promise) + Len(batch))]
    /\ UNCHANGED <<wall, pauses>>

\* timeline.loop(fn): runLoop() runs up to its first await
LoopCall(batch) ==
    /\ loop.pc = "none"
    /\ RunRound(batch)

\* the await returns while isActive holds: the next round
LoopNextRound(batch) ==
    /\ loop.pc = "awaiting"
    /\ PromiseAll(promise, loop.awaiting) = "resolved"
    /\ loop.isActive
    /\ RunRound(batch)

\* the await returns after stop(): runLoop() returns and the awaitable resolves
LoopFinish ==
    /\ loop.pc = "awaiting"
    /\ PromiseAll(promise, loop.awaiting) = "resolved"
    /\ ~loop.isActive
    /\ loop' = [loop EXCEPT !.pc = "resolved"]
    /\ UNCHANGED <<wall, clock, nodes, head, tail, timer, isPolling, promise, pauses>>

\* the await throws: runLoop() rejects
LoopFail ==
    /\ loop.pc = "awaiting"
    /\ PromiseAll(promise, loop.awaiting) = "rejected"
    /\ loop' = [loop EXCEPT !.pc = "rejected"]
    /\ UNCHANGED <<wall, clock, nodes, head, tail, timer, isPolling, promise, pauses>>

\* stop() of the object loop() returned
LoopStop ==
    /\ loop.pc # "none"
    /\ loop' = [loop EXCEPT !.isActive = FALSE]
    /\ UNCHANGED <<wall, clock, nodes, head, tail, timer, isPolling, promise, pauses>>

Next ==
    \/ Advance
    \/ \E inits \in Inits \cup {<<>>} : Enqueue(inits)
    \/ \E count \in 0..MaxRepeat, inits \in Inits \cup {<<>>} : Repeat(count, inits)
    \/ \E thr \in Throws : Frame(thr)
    \/ Pause
    \/ Resume
    \/ Start
    \/ Reset
    \/ \E i \in NodeIds : Revoke(i)
    \/ \E i \in NodeIds \cup {ForeignNode}, deep \in BOOLEAN : TimelineRevoke(i, deep)

Spec == Init /\ [][Next]_vars

\* ------------------------------------------------- the clock on its own
\* timeline.clock is public: the calls a caller makes on it directly
ClockPauseCall ==
    /\ pauses < MaxClockPauses
    /\ clock' = ClockPause(clock, wall)
    /\ pauses' = IF clock.isPaused THEN pauses ELSE pauses + 1
    /\ UNCHANGED <<wall, nodes, head, tail, timer, isPolling, promise, loop>>

ClockResumeCall ==
    /\ clock' = ClockResume(clock, wall)
    /\ UNCHANGED <<wall, nodes, head, tail, timer, isPolling, promise, pauses, loop>>

ClockResetCall ==
    /\ clock' = ClockReset
    /\ UNCHANGED <<wall, nodes, head, tail, timer, isPolling, promise, pauses, loop>>

NextClock ==
    \/ Advance
    \/ ClockPauseCall
    \/ ClockResumeCall
    \/ ClockResetCall

SpecClock == Init /\ [][NextClock]_vars

\* ------------------------------------------ a timeline that is not reset
\* Every call of the timeline and of its nodes but reset(); the clock is
\* reached through the timeline only.
NextNoReset ==
    \/ Advance
    \/ \E inits \in Inits \cup {<<>>} : Enqueue(inits)
    \/ \E count \in 0..MaxRepeat, inits \in Inits \cup {<<>>} : Repeat(count, inits)
    \/ \E thr \in Throws : Frame(thr)
    \/ Pause
    \/ Resume
    \/ Start
    \/ \E i \in NodeIds : Revoke(i)
    \/ \E i \in NodeIds \cup {ForeignNode}, deep \in BOOLEAN : TimelineRevoke(i, deep)

SpecNoReset == Init /\ [][NextNoReset]_vars

\* ------------------------------- a timeline whose clock is used directly
\* timeline.clock hands out the scheduler's own clock: a caller pauses and
\* resumes it while chains run and a frame callback is pending.
NextAccess ==
    \/ Advance
    \/ \E inits \in Inits : Enqueue(inits)
    \/ \E thr \in Throws : Frame(thr)
    \/ ClockPauseCall
    \/ ClockResumeCall

SpecAccess == Init /\ [][NextAccess]_vars

\* --------------------------------------- chains that run undisturbed
\* Chains of longer phases over a longer time, with any number of frames,
\* pauses and resumes between them; no callback throws and nothing is revoked.
TimingSegment == [duration : 1..MaxTimingDur, animator : {TRUE}]
TimingInits == SeqsUpTo(TimingSegment, MaxTimingLen) \ {<<>>}

NoThrows == [i \in Active |-> "none"]

NextTiming ==
    \/ AdvanceTo(MaxTimingWall)
    \/ \E inits \in TimingInits : Enqueue(inits)
    \/ \E count \in 1..MaxRepeat, inits \in TimingInits : Repeat(count, inits)
    \/ Frame(NoThrows)
    \/ PauseUpTo(MaxTimingPauses)
    \/ Resume

SpecTiming == Init /\ [][NextTiming]_vars

\* ------------------------------------------------ a timeline with a loop
\* One loop(fn) call whose rounds enqueue chains, with frames, throwing
\* callbacks and revokes in between. The continuation of an await is a
\* microtask, which the host runs once the awaited promise is settled.
NextLoop ==
    \/ Advance
    \/ \E batch \in LoopBatches : LoopCall(batch)
    \/ \E batch \in LoopBatches : LoopNextRound(batch)
    \/ LoopFinish
    \/ LoopFail
    \/ LoopStop
    \/ \E thr \in Throws : Frame(thr)
    \/ \E i \in NodeIds : Revoke(i)

SpecLoop == Init /\ [][NextLoop]_vars /\ WF_vars(LoopFinish)

\* ------------------------------------- a timeline driven by fair frames
\* The host delivers a frame callback whenever one is requested, and wall
\* time passes between frames: a pulse is one unit of wall time followed by
\* the frame callback. Every pause is followed by a resume, and reset() is
\* not called. A chain is enqueued while the time left covers its phases
\* (a phase of duration d takes one sweep to start and d more to complete).
RECURSIVE PulsesNeeded(_)
PulsesNeeded(inits) ==
    IF inits = <<>> THEN 0 ELSE Head(inits).duration + 1 + PulsesNeeded(Tail(inits))

Pulse(thr) ==
    /\ wall < MaxLiveWall
    /\ wall' = wall + 1
    /\ FrameAt(wall + 1, thr)

EnqueueLive(inits) ==
    /\ wall + PulsesNeeded(inits) <= MaxLiveWall
    /\ Enqueue(inits)

NextLive ==
    \/ \E inits \in Inits : EnqueueLive(inits)
    \/ \E thr \in Throws : Pulse(thr)
    \/ \E thr \in Throws : Frame(thr)
    \/ Pause
    \/ Resume
    \/ \E i \in NodeIds : Revoke(i)

\* the frame callback can run and changes the state: ENABLED <<Frame>>_vars
FrameActs ==
    /\ timer
    /\ ~Cyclic(nodes, head, {})
    /\ \E thr \in Throws :
          LET p == Poll(Ctx, clock, wall, thr) IN ~p.ret \/ p.cx # Ctx

\* a pulse can happen: ENABLED <<Pulse>>_vars
PulseActs ==
    /\ timer
    /\ ~Cyclic(nodes, head, {})
    /\ wall < MaxLiveWall

\* Weak fairness of the resume, of the pulse and of the frame callback; the
\* last two are written out, WF_vars(A) being []<>~ENABLED <<A>>_vars \/ []<><<A>>_vars.
SpecLive ==
    /\ Init
    /\ [][NextLive]_vars
    /\ WF_vars(Resume)
    /\ ([]<>~PulseActs \/ []<><<\E thr \in Throws : Pulse(thr)>>_vars)
    /\ ([]<>~FrameActs \/ []<><<\E thr \in Throws : Frame(thr)>>_vars)

\* ------------------------------------------------------------ chains
ChainOf(i) == nodes[i].chain
NodesOf(c) == {i \in NodeIds : nodes[i].chain = c}
Handle(c) == CHOOSE i \in NodesOf(c) : \A j \in NodesOf(c) : i <= j
Terminal(c) == CHOOSE i \in NodesOf(c) : \A j \in NodesOf(c) : j <= i
InList(cx, i) == i \in Range(Walk(cx.nodes, cx.head, {}))

\* the static chain from node i on: i, sub(1), sub(2), ...
RECURSIVE StaticChain(_, _)
StaticChain(nd, i) == IF i = 0 THEN {} ELSE {i} \cup StaticChain(nd, nd[i].subNode)

Handles == {Handle(c) : c \in ChainIds}
IsActiveChain(c) == NodesOf(c) \cap Active # {}

\* what a chain's progress and completion time are computed from
Progress(nd, i) == [started |-> nd[i].started, startTime |-> nd[i].startTime,
                    completed |-> nd[i].completed, error |-> nd[i].error]

\* ------------------------------------------------------------- claims
\* C1: revoking chain A through its handle leaves every sibling chain B as it
\* was: B's occupant is still reachable from the list head, and the flags and
\* start times B's progress is computed from, and B's completion signal, are
\* untouched, so B runs on as if A had not been revoked.
C1_RevokeLeavesSiblings ==
    \A h \in Handles : \A b \in Active :
        (IsActiveChain(ChainOf(h)) /\ ChainOf(b) # ChainOf(h)) =>
            LET cx == NodeRevoke(Ctx, h)
            IN  /\ InList(cx, b)
                /\ \A j \in NodesOf(ChainOf(b)) : Progress(cx.nodes, j) = Progress(nodes, j)
                /\ cx.promise[ChainOf(b)] = promise[ChainOf(b)]

\* C2: once any phase of a chain has thrown during a tick, the chain handle's
\* error property is true.
C2_HandleErrorReflectsAnyPhase ==
    \A i \in NodeIds : nodes[i].error => nodes[Handle(ChainOf(i))].error

\* C3: timeline.revoke(node) on any active occupant, at the head, in the middle
\* or at the tail, returns true and leaves the node completed and out of the list.
C3_RevokeAnyOccupant ==
    \A i \in Active :
        LET f == FindAndRevokeNode(Ctx, head, i, FALSE)
        IN  /\ f.ret
            /\ f.cx.nodes[i].completed
            /\ ~InList(f.cx, i)

\* C4: clock.now() read right after resume() equals the value frozen by the
\* preceding pause(), over any number of pause/resume cycles between resets.
C4_ResumeContinuesFromFrozen ==
    [][ClockResumeCall => ClockNow(clock', wall') = ClockNow(clock, wall)]_vars

\* C5: between two resets successive readings of clock.now() never decrease,
\* and while the clock stays paused the reading does not change.
C5_NowNeverDecreases ==
    [][(Advance \/ ClockPauseCall \/ ClockResumeCall) =>
          /\ ClockNow(clock', wall') >= ClockNow(clock, wall)
          /\ (clock.isPaused /\ clock'.isPaused =>
                ClockNow(clock', wall') = ClockNow(clock, wall))]_vars

\* a frame callback can run in this state
FrameEnabled == timer /\ ~Cyclic(nodes, head, {})

\* no phase after an errored one has ever been started
LaterPhasesUnstarted ==
    \A i \in NodeIds : nodes[i].error =>
        \A j \in NodesOf(ChainOf(i)) : j > i => ~nodes[j].started

\* C6: when a callback of phase k throws during a sweep, the chain's signal is
\* rejected with exactly the thrown value and not resolved, no later phase of
\* the chain is ever started (so none of their effects is invoked), and after
\* the sweep no node of the chain is in the active-slot list.
C6_ThrowRejectsAndRetires ==
    /\ LaterPhasesUnstarted
    /\ FrameEnabled =>
         \A thr \in Throws : \A i \in Active : thr[i] # "none" =>
            LET p == Poll(Ctx, clock, wall, thr)
            IN  /\ p.cx.promise[ChainOf(i)].state = "rejected"
                /\ p.cx.promise[ChainOf(i)].value = thr[i]
                /\ \A j \in NodesOf(ChainOf(i)) : ~InList(p.cx, j)

\* C6 (amended): when a callback of phase k throws during a sweep, the chain's
\* signal, if it was still pending, is rejected with exactly the thrown value;
\* in every case no later phase of the chain is ever started, and after the
\* sweep no node of the chain is in the active-slot list.
C6_ThrowRejectsPending ==
    /\ LaterPhasesUnstarted
    /\ FrameEnabled =>
         \A thr \in Throws : \A i \in Active : thr[i] # "none" =>
            LET p == Poll(Ctx, clock, wall, thr)
            IN  /\ promise[ChainOf(i)].state = "pending" =>
                      /\ p.cx.promise[ChainOf(i)].state = "rejected"
                      /\ p.cx.promise[ChainOf(i)].value = thr[i]
                /\ \A j \in NodesOf(ChainOf(i)) : ~InList(p.cx, j)

\* a phase with a successor has thrown: its chain is rejected and retired
C6_Witness ==
    \E i \in NodeIds :
        /\ nodes[i].error
        /\ nodes[i].subNode # 0
        /\ promise[ChainOf(i)].state = "rejected"
        /\ promise[ChainOf(i)].value = "E2"
        /\ ~InList(Ctx, i)

\* the throws of one sweep with those outside chain c taken away
OnlyChain(thr, c) == [i \in DOMAIN thr |-> IF ChainOf(i) = c THEN thr[i] ELSE "none"]

\* the node that holds the slot of occupant b after a sweep: b itself, or the
\* successor it was promoted to, or none (0) once b is retired
OccupantAfter(cx, b) ==
    IF ~cx.nodes[b].completed THEN b
    ELSE IF cx.nodes[b].error THEN 0
    ELSE cx.nodes[b].subNode

\* C7: a phase of chain A throwing in a sweep does not affect a sibling chain B
\* active in that sweep: B's occupant is ticked, its animator is called as it is
\* when A does not throw, B's flags, start times and signal come out the same,
\* and the node holding B's slot afterwards is in the active-slot list.
C7_ThrowLeavesSiblings ==
    FrameEnabled =>
        \A thr \in Throws : \A b \in Active :
            ((\A j \in NodesOf(ChainOf(b)) \cap Active : thr[j] = "none")
                /\ ~nodes[b].completed /\ ~nodes[b].error) =>
                LET p == Poll(Ctx, clock, wall, thr)
                    q == Poll(Ctx, clock, wall, OnlyChain(thr, ChainOf(b)))
                IN  /\ b \in Range(p.ticked)
                    /\ p.cx.nodes[b].started
                    /\ (b \in p.called) = (b \in q.called)
                    /\ (b \in p.called) = nodes[b].animator
                    /\ \A j \in NodesOf(ChainOf(b)) :
                          Progress(p.cx.nodes, j) = Progress(q.cx.nodes, j)
                    /\ p.cx.promise[ChainOf(b)] = q.cx.promise[ChainOf(b)]
                    /\ OccupantAfter(p.cx, b) # 0 => InList(p.cx, OccupantAfter(p.cx, b))

\* two chains were swept together, one threw and was retired, the other is
\* started, unharmed and still in the list
C7_Witness ==
    \E a \in NodeIds : \E b \in Active :
        /\ ChainOf(a) # ChainOf(b)
        /\ nodes[a].error
        /\ nodes[a].started /\ nodes[b].started
        /\ nodes[a].startTime = nodes[b].startTime
        /\ ~nodes[b].completed /\ ~nodes[b].error
        /\ promise[ChainOf(b)].state = "pending"

AllCompleted(cx, c) == \A j \in NodesOf(c) : cx.nodes[j].completed

\* C8: revoking a chain through its handle while its signal is pending resolves
\* the signal and completes every phase; and in any later sweep no animator of
\* a chain whose phases are all completed is called and its signal stays as it
\* is, never rejected. In particular an unstarted two-phase chain is resolved
\* and its second phase is never started.
C8_RevokeResolves ==
    \A c \in ChainIds :
        /\ promise[c].state = "pending" =>
              LET cx == NodeRevoke(Ctx, Handle(c))
              IN  /\ cx.promise[c].state = "resolved"
                  /\ AllCompleted(cx, c)
                  /\ \A j \in NodesOf(c) : cx.nodes[j].started = nodes[j].started
        /\ (AllCompleted(Ctx, c) /\ FrameEnabled) =>
              \A thr \in Throws :
                  LET p == Poll(Ctx, clock, wall, thr)
                  IN  /\ p.called \cap NodesOf(c) = {}
                      /\ p.cx.promise[c].state = promise[c].state
                      /\ \A j \in NodesOf(c) : p.cx.nodes[j].started = nodes[j].started

\* an unstarted two-phase chain with an effect on its second phase was revoked
\* and is resolved, while the timeline goes on sweeping another chain
C8_Witness ==
    \E c \in ChainIds :
        /\ Cardinality(NodesOf(c)) = 2
        /\ AllCompleted(Ctx, c)
        /\ \A j \in NodesOf(c) : ~nodes[j].started
        /\ nodes[Terminal(c)].animator
        /\ promise[c].state = "resolved"
        /\ \E b \in NodeIds : ChainOf(b) > c /\ nodes[b].started

\* C9: handle.revoke(), whatever number of promotions the chain has gone
\* through, leaves every node of the chain completed and no node of the chain
\* reachable from the list head.
C9_HandleRevokeReachesOccupant ==
    \A c \in ChainIds :
        LET cx == NodeRevoke(Ctx, Handle(c))
        IN  \A j \in NodesOf(c) : cx.nodes[j].completed /\ ~InList(cx, j)

\* C10: timeline.revoke(node, true) on a pending phase below any active
\* occupant returns true and completes that node and all its static descendants.
C10_DeepRevokeFindsPending ==
    \A o \in Active : \A d \in StaticChain(nodes, nodes[o].subNode) :
        LET f == FindAndRevokeNode(Ctx, head, d, TRUE)
        IN  /\ f.ret
            /\ \A j \in StaticChain(nodes, d) : f.cx.nodes[j].completed

NoCycle == ~Cyclic(nodes, head, {})

\* node t is not an active occupant nor, for a deep search, a phase below one
Unfound(t, deep) ==
    /\ t \notin Active
    /\ deep => \A o \in Active : t \notin StaticChain(nodes, o)

\* C11: timeline.revoke(node, deep) returns false and leaves the list, every
\* node and every completion signal as they were when the node belongs to
\* another scheduler, or is not an active occupant and (for a deep search) is
\* not in the static chain of any active occupant.
C11_RevokeUnfoundIsNoOp ==
    \A t \in NodeIds \cup {ForeignNode} : \A deep \in BOOLEAN :
        (t = ForeignNode \/ Unfound(t, deep)) =>
            LET f == TimelineRevokeOp(Ctx, t, deep)
            IN  ~f.ret /\ f.cx = Ctx

\* while a chain is running, a shallow search is asked for the unfinished
\* pending phase below the head occupant, and finds nothing
C11_Witness ==
    \E t \in NodeIds :
        /\ head # 0
        /\ timer
        /\ nodes[head].subNode = t
        /\ ~nodes[t].completed
        /\ nodes[head].started
        /\ Unfound(t, FALSE)
        /\ ~TimelineRevokeOp(Ctx, t, FALSE).ret

\* C12: right after clock.reset(), whatever the wall time and the prior pause
\* and offset state, clock.now() returns zero and the clock is running.
C12_ResetReadsZero ==
    [][ClockResetCall => (ClockNow(clock', wall') = 0 /\ ~clock'.isPaused)]_vars

\* C12 (amended): right after clock.reset(), whatever the wall time and the
\* prior pause and offset state, the offset and the frozen value are zero, so
\* clock.now() returns the wall time, and the clock is running.
C12_ResetReadsWall ==
    [][ClockResetCall =>
          /\ clock'.offset = 0
          /\ clock'.pausedTime = 0
          /\ ~clock'.isPaused
          /\ ClockNow(clock', wall') = wall']_vars

\* the clock as reset() leaves it, at a wall time past zero and after pauses
\* were taken: it runs and reads the wall time
C12_Witness ==
    /\ wall > 0
    /\ pauses > 1
    /\ clock = ClockReset
    /\ ClockNow(clock, wall) = wall

\* d1 + ... + dn of the static chain from node i on
RECURSIVE SumDurations(_, _)
SumDurations(nd, i) == IF i = 0 THEN 0 ELSE nd[i].duration + SumDurations(nd, nd[i].subNode)

\* C13: a chain of phases d1..dn that is never revoked and whose callbacks do
\* not throw is resolved no earlier than the sweep whose virtual time is the
\* start time latched at the chain's first tick plus d1 + ... + dn, under any
\* interleaving of frames, pauses, resumes and other chains.
C13_ResolvesNoEarlierThanSum ==
    FrameEnabled =>
        \A c \in ChainIds :
            LET p == Poll(Ctx, clock, wall, NoThrows)
                h == Handle(c)
            IN  (promise[c].state = "pending" /\ p.cx.promise[c].state = "resolved") =>
                    /\ p.cx.nodes[h].started
                    /\ ClockNow(clock, wall) >=
                          p.cx.nodes[h].startTime[1] + SumDurations(nodes, h)

\* the chains animate([500, a, f], [500, a, g]), one model time unit being 250
ExampleChains ==
    {c \in ChainIds :
        /\ Cardinality(NodesOf(c)) = 2
        /\ \A j \in NodesOf(c) : nodes[j].duration = 2 /\ nodes[j].animator}

Half == [num |-> 1, den |-> 2]

\* C14: for a chain animate([500, a, f], [500, a, g]), with virtual time
\* measured from the chain's first tick, a sweep at 250 passes a the progress
\* f(0.5), a sweep at 750 passes a the progress g(0.5) (the second phase's raw
\* progress is 0.5), and the chain resolves at the sweep at 1000.
C14_ExampleExact ==
    FrameEnabled =>
        \A c \in ExampleChains :
            LET h == Handle(c)
                g == Terminal(c)
                p == Poll(Ctx, clock, wall, NoThrows)
            IN  nodes[h].started =>
                    /\ Now = nodes[h].startTime[1] + 1 => <<h, Half>> \in p.passed
                    /\ Now = nodes[h].startTime[1] + 3 => <<g, Half>> \in p.passed
                    /\ Now = nodes[h].startTime[1] + 4 =>
                          /\ promise[c].state = "pending"
                          /\ p.cx.promise[c].state = "resolved"

\* C14 (amended): for a chain animate([500, a, f], [500, a, g]) each phase
\* measures virtual time from its own first tick. The phase holding the slot
\* latches its start s at its first tick and is passed progress 0 there; a
\* sweep at s + 250 passes a its timing at 0.5; before s + 500 the phase stays
\* and the signal is untouched; the first sweep at or after s + 500 passes
\* progress 1 and completes the phase: the first phase is replaced in the list
\* by the second, which is not ticked in that sweep, and the second phase
\* resolves the chain. The second phase is passed g(0.5) at 750 after the
\* chain's first tick only if it latched its start at 500.
C14_ExamplePerPhase ==
    FrameEnabled =>
        \A c \in ExampleChains : \A k \in NodesOf(c) \cap Active :
            LET h == Handle(c)
                g == Terminal(c)
                p == Poll(Ctx, clock, wall, NoThrows)
                s == p.cx.nodes[k].startTime[1]
            IN  ~nodes[k].completed =>
                    /\ p.cx.nodes[k].started
                    /\ ~nodes[k].started =>
                          s = Now /\ <<k, [num |-> 0, den |-> 2]>> \in p.passed
                    /\ nodes[k].started => s = nodes[k].startTime[1]
                    /\ Now = s + 1 => <<k, Half>> \in p.passed
                    /\ Now < s + 2 =>
                          ~p.cx.nodes[k].completed /\ p.cx.promise[c] = promise[c]
                    /\ Now >= s + 2 =>
                          /\ <<k, [num |-> 2, den |-> 2]>> \in p.passed
                          /\ p.cx.nodes[k].completed
                          /\ k = h =>
                                /\ g \notin p.called
                                /\ ~p.cx.nodes[g].started
                                /\ InList(p.cx, g)
                                /\ p.cx.promise[c] = promise[c]
                          /\ (k = g /\ promise[c].state = "pending") =>
                                p.cx.promise[c].state = "resolved"
                    /\ (k = g /\ <<g, Half>> \in p.passed
                             /\ Now = nodes[h].startTime[1] + 3) =>
                          s = nodes[h].startTime[1] + 2

\* the second phase of such a chain latched its start at 750 after the chain's
\* first tick, and the sweep at 1000 passes it progress 0.5
C14_Witness ==
    \E c \in ExampleChains :
        /\ FrameEnabled
        /\ nodes[Handle(c)].completed
        /\ nodes[Terminal(c)].started
        /\ nodes[Terminal(c)].startTime[1] = nodes[Handle(c)].startTime[1] + 3
        /\ Now = nodes[Handle(c)].startTime[1] + 4
        /\ <<Terminal(c), Half>> \in Poll(Ctx, clock, wall, NoThrows).passed

\* C15: animate() with no segment, and repeat(n, ...) with no segment, throw
\* at once and leave the scheduler as it was: no node and no signal is created,
\* and the list, the clock and the frame subscription are unchanged.
C15_EmptyCallThrows ==
    /\ LET r == EnqueueOp(Ctx, Sched, <<>>)
       IN  r.threw /\ r.cx = Ctx /\ r.sched = Sched
    /\ \A n \in 0..MaxRepeat :
          LET r == RepeatOp(Ctx, Sched, n, <<>>)
          IN  r.threw /\ r.cx = Ctx /\ r.sched = Sched

\* the empty call is made on an idle timeline that has run chains before and
\* would otherwise be started by it, and on a paused one with chains in the list
C15_Witness ==
    /\ EnqueueOp(Ctx, Sched, <<>>).threw
    /\ \/ ~timer /\ ~isPolling /\ head = 0 /\ Len(nodes) > 0
       \/ clock.isPaused /\ head # 0 /\ wall > 0

\* s1..sm written out n times by position
Concatenated(n, inits) ==
    [k \in 1..(n * Len(inits)) |-> inits[((k - 1) % Len(inits)) + 1]]

\* the nodes the call that led from cx to r created
Created(cx, r) == (Len(cx.nodes) + 1)..Len(r.cx.nodes)

\* C16: repeat(n, s1..sm) with n >= 1 does what animate does on s1..sm written
\* out n times: it leaves the same scheduler state, in which one chain, one
\* completion signal and one active slot were added, the chain having n*m
\* phases in that order, with the completion callback on the last one only; so
\* the same frames give the same effect calls and the same resolving sweep.
\* The signal of such a chain, when nothing is revoked and nothing throws, is
\* resolved only once all its phases have been started and completed.
C16_RepeatIsAnimateOfCopies ==
    /\ \A n \in 1..MaxRepeat : \A inits \in TimingInits :
          LET r == RepeatOp(Ctx, Sched, n, inits)
              a == EnqueueOp(Ctx, Sched, Concatenated(n, inits))
              new == Created(Ctx, r)
              root == Len(nodes) + 1
          IN  /\ ~r.threw
              /\ r = a
              /\ Len(r.cx.promise) = Len(promise) + 1
              /\ Cardinality(new) = n * Len(inits)
              /\ Len(Walk(r.cx.nodes, r.cx.head, {})) = Len(ActiveList) + 1
              /\ Range(Walk(r.cx.nodes, r.cx.head, {})) \cap new = {root}
              /\ StaticChain(r.cx.nodes, root) = new
              /\ \A j \in new :
                    /\ r.cx.nodes[j].chain = Len(promise) + 1
                    /\ r.cx.nodes[j].duration = inits[((j - root) % Len(inits)) + 1].duration
                    /\ r.cx.nodes[j].animator = inits[((j - root) % Len(inits)) + 1].animator
                    /\ r.cx.nodes[j].onCompleted = (j = Len(r.cx.nodes))
                    /\ r.cx.nodes[j].subNode = IF j < Len(r.cx.nodes) THEN j + 1 ELSE 0
    /\ \A c \in ChainIds :
          promise[c].state = "resolved" =>
              \A j \in NodesOf(c) : nodes[j].started /\ nodes[j].completed

\* a chain made by repeat(3, [d, a]) has run through its three phases, one
\* after the other, and is resolved
C16_Witness ==
    \E c \in ChainIds :
        /\ Cardinality(NodesOf(c)) = 3
        /\ promise[c].state = "resolved"
        /\ \A j \in NodesOf(c) : nodes[j].started /\ nodes[j].completed /\ nodes[j].animator
        /\ \A j \in NodesOf(c) : j # Terminal(c) =>
              nodes[j + 1].startTime[1] >= nodes[j].startTime[1] + nodes[j].duration

\* C17: every node's completed flag is false when the node is created and,
\* whatever sweeps, revokes, pauses, resumes, resets and enqueues follow, once
\* true it is never false again.
C17_CompletedMonotone ==
    [][/\ \A i \in NodeIds : i \in 1..Len(nodes') /\ (nodes[i].completed => nodes'[i].completed)
       /\ \A i \in 1..Len(nodes') : i \notin NodeIds => ~nodes'[i].completed]_vars

\* a handle completed after it started and a phase completed by revoke()
\* before it ever started are still completed while a chain enqueued after
\* theirs is running
C17_Witness ==
    \E i, j, k \in NodeIds :
        /\ i \in Handles /\ nodes[i].completed /\ nodes[i].started
        /\ nodes[j].completed /\ ~nodes[j].started
        /\ ChainOf(k) > ChainOf(i) /\ ChainOf(k) > ChainOf(j)
        /\ nodes[k].started /\ ~nodes[k].completed

\* C18: a chain's signal is resolved only by the retirement of its terminal
\* node: whenever the signal is resolved the terminal node is completed; the
\* resolve callback is invoked at most once per chain; and a signal that was
\* rejected stays rejected, with the value it was rejected with.
C18_ResolvedOnlyByTerminal ==
    /\ [](\A c \in ChainIds :
            /\ promise[c].state = "resolved" => nodes[Terminal(c)].completed
            /\ promise[c].resolveCalls <= 1
            /\ promise[c].resolveCalls = 1 => nodes[Terminal(c)].completed)
    /\ [][\A c \in ChainIds :
            promise[c].state = "rejected" =>
                /\ c \in 1..Len(promise')
                /\ promise'[c].state = "rejected"
                /\ promise'[c].value = promise[c].value]_vars

\* one chain was resolved by its terminal node; another was rejected by its
\* first phase and revoked afterwards, which invoked its resolve callback, and
\* it is still rejected
C18_Witness ==
    \E c, d \in ChainIds :
        /\ promise[c].state = "resolved" /\ promise[c].resolveCalls = 1
        /\ nodes[Terminal(c)].completed
        /\ promise[d].state = "rejected" /\ promise[d].resolveCalls = 1
        /\ Handle(d) # Terminal(d)
        /\ nodes[Handle(d)].error
        /\ nodes[Terminal(d)].completed

\* C19: loop(fn) invokes fn for round k+1 only after every promise returned by
\* round k has resolved; its awaitable is never resolved before stop() was
\* called; and once stop() is called during a round, the round is not
\* cancelled (stop() changes nothing of the timeline or of what is awaited), fn
\* is never invoked again, and the awaitable resolves once the round's promises
\* have all resolved.
C19_LoopRoundsAndStop ==
    /\ [](loop.pc = "resolved" => ~loop.isActive)
    /\ [][(loop.pc # "none" /\ loop'.rounds # loop.rounds) =>
            /\ loop'.rounds = loop.rounds + 1
            /\ loop.isActive
            /\ \A c \in loop.awaiting : promise[c].state = "resolved"]_vars
    /\ [][LoopStop =>
            /\ UNCHANGED <<wall, clock, nodes, head, tail, timer, isPolling, promise>>
            /\ loop'.awaiting = loop.awaiting /\ loop'.pc = loop.pc]_vars
    /\ [][(loop.pc # "none" /\ ~loop.isActive) =>
            ~loop'.isActive /\ loop'.rounds = loop.rounds]_vars
    /\ [][loop'.pc = "resolved" =>
            \A c \in loop.awaiting : promise[c].state = "resolved"]_vars
    /\ (loop.pc = "awaiting" /\ ~loop.isActive
            /\ PromiseAll(promise, loop.awaiting) = "resolved") ~> (loop.pc = "resolved")

\* stop() was called during the second round, whose two chains were still
\* running; they ran on to their resolution, fn was not invoked a third time,
\* and the awaitable is resolved
C19_Witness ==
    /\ loop.pc = "resolved"
    /\ loop.rounds = 2
    /\ Cardinality(loop.awaiting) = 2
    /\ \A c \in loop.awaiting :
          /\ promise[c].state = "resolved"
          /\ \A j \in NodesOf(c) : nodes[j].started /\ nodes[j].startTime[1] > 0

\* C20: start() while a frame subscription is pending or while paused, pause()
\* while already paused, and resume() while not paused are no-ops: the clock
\* (offset, paused flag, frozen value), the frame subscription and the polling
\* flag come out as they were; the calls never touch the list, the nodes or
\* the signals.
C20_NoOpsOutsideEnablingState ==
    /\ (timer \/ clock.isPaused) => StartT(Sched) = Sched
    /\ clock.isPaused => PauseT(Sched, wall) = Sched
    /\ ~clock.isPaused => ResumeT(Sched, wall) = Sched

\* a paused timeline with a started chain in its list and a frozen reading past
\* zero, on which start() and pause() do nothing
C20_Witness ==
    /\ clock.isPaused
    /\ ~timer
    /\ clock.pausedTime > 0
    /\ head # 0 /\ nodes[head].started
    /\ StartT(Sched) = Sched
    /\ PauseT(Sched, wall) = Sched

\* ------------------------------------------------------------------ C21
Settled(c) == c \in ChainIds /\ promise[c].state # "pending"
Idle == ~timer /\ ~isPolling /\ head = 0

\* C21: under fair frame pulses with advancing wall time, with every pause
\* followed by a resume and no reset(), the signal of every enqueued chain
\* is eventually resolved or rejected, whatever is enqueued or revoked
\* meanwhile, and once the list is empty the scheduler eventually is idle.
C21_EveryChainSettles ==
    /\ \A c \in 1..MaxChains : (c \in ChainIds) ~> Settled(c)
    /\ (head = 0) ~> Idle

\* ------------------------------------------------------------------ C22
\* a sweep can run in this state: a frame callback is pending, the clock runs
\* and the list is not empty
SweepRuns == timer /\ ~clock.isPaused /\ head # 0

Live(nd, i) == ~nd[i].completed /\ ~nd[i].error

\* C22: in every sweep each node that is in the list when the sweep starts is
\* ticked exactly once, all with the same `now`: an unstarted one latches that
\* `now`, a callback is called once with the progress at that `now`, and no
\* other node is touched; the ticks change no link and no completed flag, the
\* completions follow them; and a successor promoted by the sweep is not
\* ticked in it: it is as unstarted after the sweep as it was before.
C22_SweepTicksOnceThenCompletes ==
    SweepRuns =>
        \A thr \in Throws :
            LET list == Walk(nodes, head, {})
                t == ProcessNodes(Ctx, list, Now, Now, thr)
                p == Poll(Ctx, clock, wall, thr)
                after == Range(Walk(p.cx.nodes, p.cx.head, {}))
            IN  /\ p.ticked = list
                /\ \A i \in Range(list) : Live(nodes, i) =>
                      /\ p.cx.nodes[i].started
                      /\ ~nodes[i].started => p.cx.nodes[i].startTime = <<Now>>
                      /\ nodes[i].started => p.cx.nodes[i].startTime = nodes[i].startTime
                      /\ nodes[i].animator =>
                            {q \in p.passed : q[1] = i}
                                = {<<i, CalculateProgress(p.cx.nodes[i], Now)>>}
                /\ \A i \in NodeIds : (i \notin Range(list) \/ ~Live(nodes, i)) =>
                      /\ {q \in p.passed : q[1] = i} = {}
                      /\ i \notin p.called
                      /\ p.cx.nodes[i].started = nodes[i].started
                      /\ p.cx.nodes[i].startTime = nodes[i].startTime
                      /\ p.cx.nodes[i].error = nodes[i].error
                /\ t.cx.head = head /\ t.cx.tail = tail
                /\ \A i \in NodeIds :
                      /\ t.cx.nodes[i].completed = nodes[i].completed
                      /\ t.cx.nodes[i].prevNode = nodes[i].prevNode
                      /\ t.cx.nodes[i].nextNode = nodes[i].nextNode
                      /\ p.cx.nodes[i].completed = (nodes[i].completed \/ i \in Range(t.done))
                /\ \A s \in after \ Range(list) :
                      /\ p.cx.nodes[s].started = nodes[s].started
                      /\ p.cx.nodes[s].startTime = nodes[s].startTime
                      /\ p.cx.nodes[s].error = nodes[s].error

\* a sweep ticked two chains together: one phase completed and its successor,
\* promoted into the list, is still unstarted, while the other chain's phase
\* latched its start in that sweep
C22_Witness ==
    \E a \in NodeIds : \E b \in Active :
        /\ ChainOf(a) # ChainOf(b)
        /\ nodes[a].completed /\ ~nodes[a].error /\ nodes[a].started
        /\ nodes[a].subNode # 0
        /\ InList(Ctx, nodes[a].subNode)
        /\ ~nodes[nodes[a].subNode].started
        /\ ~nodes[nodes[a].subNode].completed
        /\ nodes[b].started /\ ~nodes[b].completed
        /\ nodes[b].startTime = <<Now>>
        /\ nodes[a].startTime # nodes[b].startTime
        /\ timer

\* ------------------------------------------------------------------ C23
\* C23: after every frame callback: if the list is empty then no frame
\* callback is pending, head and tail are cleared, the polling flag is false
\* and the clock is reset and running (it reads the wall time); otherwise a
\* frame callback is pending again and the scheduler is still polling.
C23_FrameEndsIdleOrResubscribed ==
    [][\/ IF head' = 0
          THEN /\ ~timer'
               /\ tail' = 0
               /\ ~isPolling'
               /\ ~clock'.isPaused
               /\ ClockNow(clock', wall') = wall'
          ELSE timer' /\ isPolling'
       \/ \A thr \in Throws : ~Frame(thr)]_vars

\* after wall time has passed every phase has run to completion, every signal
\* is resolved, and the last sweep left the timeline idle with a reset clock
C23_Witness ==
    /\ NodeIds # {}
    /\ \A i \in NodeIds : nodes[i].started /\ nodes[i].completed /\ ~nodes[i].error
    /\ \A c \in ChainIds : promise[c].state = "resolved"
    /\ head = 0 /\ tail = 0 /\ ~timer /\ ~isPolling
    /\ wall > 0 /\ Now = wall

\* ------------------------------------------------------------------ C24
\* C24: a frame callback that runs while the clock is paused does nothing: the
\* list, every node, the clock and every signal are as they were before it.
C24_PausedFrameDoesNothing ==
    [][\A thr \in Throws : (clock.isPaused /\ Frame(thr)) =>
          UNCHANGED <<nodes, head, tail, promise, clock>>]_vars

\* ------------------------------------------------------------------ C25
\* a pending phase that was never promoted: its predecessor in the static
\* chain is not completed, and it is not in the list
NeverPromoted(s) ==
    /\ ~nodes[s].completed
    /\ s \notin Active
    /\ \E o \in NodeIds : nodes[o].subNode = s /\ ~nodes[o].completed

\* C25: revoking a pending phase that was never promoted into the list,
\* through sub(i).revoke(), marks it and the phases below it completed and
\* leaves the head, the tail and the prev/next links of every occupant of the
\* list as they were.
C25_RevokePendingKeepsList ==
    \A s \in NodeIds : NeverPromoted(s) =>
        LET cx == NodeRevoke(Ctx, s)
        IN  /\ cx.head = head
            /\ cx.tail = tail
            /\ \A o \in Active :
                  /\ cx.nodes[o].prevNode = nodes[o].prevNode
                  /\ cx.nodes[o].nextNode = nodes[o].nextNode

\* ------------------------------------------------------------------ C26
\* C26: a node is created unstarted and stays unstarted, with no start time,
\* through every step but a sweep that ticks it, pauses and resumes included;
\* the first sweep in whose list it is live starts it and latches the virtual
\* time of that sweep as its start time; and once latched the start time
\* never changes.
C26_StartLatchedAtFirstTick ==
    /\ [](\A i \in NodeIds : nodes[i].started = (nodes[i].startTime # <<>>))
    /\ [][\A i \in DOMAIN nodes' :
            IF i \notin NodeIds
            THEN ~nodes'[i].started
            ELSE /\ nodes[i].started =>
                      /\ nodes'[i].started
                      /\ nodes'[i].startTime = nodes[i].startTime
                 /\ (~nodes[i].started /\ nodes'[i].started) =>
                      /\ SweepRuns
                      /\ i \in Active
                      /\ Live(nodes, i)
                      /\ wall' = wall
                      /\ nodes'[i].startTime = <<Now>>]_vars
    /\ [](SweepRuns =>
            \A thr \in Throws : \A i \in Active : Live(nodes, i) =>
                Poll(Ctx, clock, wall, thr).cx.nodes[i].started)

\* a phase enqueued after wall time had passed stayed unstarted over a pause
\* and a resume and latched the later virtual time at its first sweep, while a
\* phase started earlier keeps its earlier start time
C26_Witness ==
    \E i, j \in NodeIds :
        /\ pauses > 0
        /\ ~clock.isPaused
        /\ nodes[i].started /\ nodes[j].started
        /\ nodes[j].startTime = <<0>>
        /\ nodes[i].startTime = <<Now>>
        /\ Now > 0
        /\ i \in Active /\ ~nodes[i].completed

\* ------------------------------------------------------------------ C27
\* (now - start) / d clamped to [0, 1], as the fraction num / d
Clamped(now, start, d) ==
    IF now - start <= 0 THEN [num |-> 0, den |-> d]
    ELSE IF now - start >= d THEN [num |-> d, den |-> d]
    ELSE [num |-> now - start, den |-> d]

\* C27: in every sweep the tick of a live phase (its duration is positive, its
\* callback returns) passes the callback exactly the raw progress
\* (now - start) / duration clamped to [0, 1], start being the latched start
\* time, and the phase is completed by that sweep if and only if that raw
\* progress is at least 1, that is if and only if now >= start + duration.
C27_RawProgressAndCompletion ==
    SweepRuns =>
        LET p == Poll(Ctx, clock, wall, NoThrows) IN
        \A i \in Active : Live(nodes, i) =>
            LET start == p.cx.nodes[i].startTime[1]
                d == nodes[i].duration
                raw == Clamped(Now, start, d)
            IN  /\ d > 0
                /\ 0 <= raw.num /\ raw.num <= raw.den
                /\ nodes[i].animator => {q \in p.passed : q[1] = i} = {<<i, raw>>}
                /\ p.cx.nodes[i].completed = (raw.num >= raw.den)
                /\ p.cx.nodes[i].completed = (Now >= start + d)

\* a sweep is due in which a running phase of duration 2, started one time
\* unit before, is passed the raw progress 1/2
C27_Witness ==
    /\ SweepRuns
    /\ \E i \in Active :
          /\ Live(nodes, i) /\ nodes[i].started /\ nodes[i].animator
          /\ nodes[i].duration = 2
          /\ Now = nodes[i].startTime[1] + 1
          /\ <<i, Half>> \in Poll(Ctx, clock, wall, NoThrows).passed

\* ------------------------------------------------------------------ C28
\* the list `l` with node i replaced by node s
RECURSIVE Substituted(_, _, _)
Substituted(l, i, s) ==
    IF l = <<>> THEN <<>>
    ELSE <<IF Head(l) = i THEN s ELSE Head(l)>> \o Substituted(Tail(l), i, s)

\* C28: the list keeps the enqueue order: from the head on, the chains of the
\* listed nodes are in the order they were enqueued; animate() appends the
\* first node of the new chain at the tail of the list; and promotion puts the
\* successor in the position of the node it replaces, with the same
\* neighbours, head and tail repointed to it.
C28_ListKeepsEnqueueOrder ==
    /\ \A k, l \in 1..Len(ActiveList) :
          k < l => ChainOf(ActiveList[k]) < ChainOf(ActiveList[l])
    /\ \A inits \in Inits :
          LET r == EnqueueOp(Ctx, Sched, inits)
          IN  /\ Walk(r.cx.nodes, r.cx.head, {}) = ActiveList \o <<Len(nodes) + 1>>
              /\ r.cx.tail = Len(nodes) + 1
    /\ \A i \in Active :
          (Live(nodes, i) /\ nodes[i].subNode # 0) =>
              LET s == nodes[i].subNode
                  cx == Complete(Ctx, i)
              IN  /\ Walk(cx.nodes, cx.head, {}) = Substituted(ActiveList, i, s)
                  /\ cx.nodes[s].prevNode = nodes[i].prevNode
                  /\ cx.nodes[s].nextNode = nodes[i].nextNode
                  /\ cx.head = (IF head = i THEN s ELSE head)
                  /\ cx.tail = (IF tail = i THEN s ELSE tail)

\* ------------------------------------------------------------------ C29
\* the handles from which node i is reached along the static chain
HandlesReaching(i) == {h \in Handles : i \in StaticChain(nodes, h)}

\* C29: every node reachable from the list head is reachable along the static
\* chain from exactly one chain handle, and no two nodes of the list are
\* reached from the same handle: a chain holds at most one slot.
C29_OneSlotPerChain ==
    /\ \A i \in Active : Cardinality(HandlesReaching(i)) = 1
    /\ \A i, j \in Active : i # j => HandlesReaching(i) \cap HandlesReaching(j) = {}

\* two chains hold a slot each, one of them with a promoted later phase
C29_Witness ==
    \E i, j \in Active :
        /\ HandlesReaching(i) # HandlesReaching(j)
        /\ i \notin Handles
        /\ \A h \in HandlesReaching(i) : nodes[h].completed /\ nodes[h].started

\* ------------------------------------------------------------------ C30
\* C30: revoke() and complete() are idempotent. A second handle.revoke()
\* right after the first, a handle.revoke() on a chain whose phases are all
\* completed (by running to the end or by an earlier revoke), and a complete()
\* on a completed node each leave every node flag, every link, head and tail
\* as they are and call no completion callback again.
C30_RevokeCompleteIdempotent ==
    /\ \A h \in Handles :
          NodeRevoke(NodeRevoke(Ctx, h), h) = NodeRevoke(Ctx, h)
    /\ \A c \in ChainIds :
          AllCompleted(Ctx, c) => NodeRevoke(Ctx, Handle(c)) = Ctx
    /\ \A i \in NodeIds :
          nodes[i].completed => Complete(Ctx, i) = Ctx

\* one chain ran to its end and another was revoked before it started, each
\* with its completion callback called once, while a third node is in the list
C30_Witness ==
    \E c, d \in ChainIds :
        /\ c # d
        /\ AllCompleted(Ctx, c) /\ AllCompleted(Ctx, d)
        /\ \A j \in NodesOf(c) : nodes[j].started
        /\ \A j \in NodesOf(d) : ~nodes[j].started
        /\ promise[c] = [state |-> "resolved", value |-> "none", resolveCalls |-> 1]
        /\ promise[d] = [state |-> "resolved", value |-> "none", resolveCalls |-> 1]
        /\ head # 0

\* ------------------------------------------------------------------ C31
\* C31: without reset() and without calls on the clock itself, whenever the
\* list is not empty and the scheduler is not paused a frame callback is
\* pending: no enqueued chain is left without a frame to drive it.
C31_ActiveListIsDriven ==
    (head # 0 /\ ~clock.isPaused) => timer

\* ------------------------------------------------------------------ C32
\* the indices sub() is called with: negative ones and ones past every chain
SubIndices == (0 - 1)..(MaxNodes + 1)

\* C32: node.sub(0) is the node itself; for 0 < i up to the terminal phase,
\* node.sub(i) is the i-th phase after the node in the order the chain was
\* created, whichever phases are completed or promoted; and node.sub(i) is
\* undefined for a negative i and for an i past the terminal phase.
C32_SubWalksStaticChain ==
    \A n \in NodeIds :
        LET last == Terminal(ChainOf(n)) IN
        \A k \in SubIndices :
            Sub(nodes, n, k) = IF k >= 0 /\ n + k <= last THEN n + k ELSE 0

\* a three-phase chain whose first phase has completed and whose second phase
\* holds the slot: sub(1) and sub(2) of the handle are still those phases
C32_Witness ==
    \E h \in Handles :
        /\ Terminal(ChainOf(h)) = h + 2
        /\ nodes[h].completed /\ nodes[h].started
        /\ h + 1 \in Active
        /\ ~nodes[h + 2].completed
        /\ Sub(nodes, h, 2) = h + 2
        /\ Sub(nodes, h, 3) = 0

\* ------------------------------------------------------------------ C33
\* C33: between operations the list is a well-formed doubly-linked list:
\* the head is undefined exactly when the tail is, the head node has no prev
\* link, the tail is the last node reached from the head along the next
\* links, every node of the list is the prev of its next node, and the next
\* links from the head run into no cycle.
C33_ListWellFormed ==
    /\ (head = 0) = (tail = 0)
    /\ head # 0 => nodes[head].prevNode = 0
    /\ ~Cyclic(nodes, head, {})
    /\ head # 0 => ActiveList[Len(ActiveList)] = tail
    /\ \A k \in 1..(Len(ActiveList) - 1) :
          /\ nodes[ActiveList[k]].nextNode = ActiveList[k + 1]
          /\ nodes[ActiveList[k + 1]].prevNode = ActiveList[k]

\* ------------------------------------------------------------------ C34
\* C34: between sweeps no node reachable from the list head is completed or
\* errored: a sweep replaces each node it completes by a successor that is
\* not completed, or unlinks it, and a revoke unlinks at once, so a tick never
\* finds a list occupant already done.
C34_NoDoneNodeInList ==
    \A i \in Active : Live(nodes, i)

====
